---------------------------- MODULE Spec2Model ----------------------------
(***************************************************************************)
(* A model of the auditanalytics calculators: stratified allocation,       *)
(* discovery / attribute / acceptance / monetary-unit sample sizes and the *)
(* footing reconciler.                                                     *)
(*                                                                         *)
(* Every calculator is a call: pc goes "idle" -> ("loop" ->)* "done".      *)
(* call holds the function name and the arguments as the caller passed     *)
(* them, ret what the caller receives (a value or the raised exception).   *)
(* frame holds the parameters of the function body that runs the power     *)
(* search (defaults filled in), n and effect_size its local variables, and *)
(* prev the previous call of a caller that makes two calls in a row.       *)
(* Where several call sites run at once, heap holds the lists they pass    *)
(* (by reference) and site the call each of them is in.  fs is the file    *)
(* system the loaders read and write.                                      *)
(*                                                                         *)
(* Number conventions (floats are modelled in fixed point):                *)
(*   probabilities and rates   per mille      (0.05  -> 50)                *)
(*   t / z values, effect size per mille      (1.645 -> 1645)              *)
(*   natural logarithms        per 10^4       (ln 0.05 -> -29957)          *)
(*   footed amounts            units of 1e-11 (1e-10 -> 10)                *)
(***************************************************************************)
EXTENDS Integers, Sequences, FiniteSets, TLC

VARIABLES pc, call, frame, n, effect_size, ret, prev, heap, site, fs

vars == <<pc, call, frame, n, effect_size, ret, prev, heap, site, fs>>

\* An optional argument is <<v>> when the caller passes v and <<>> when the
\* caller leaves it out (or passes None).
None == <<>>

Some(S) == {<<v>> : v \in S}

Optional(S) == Some(S) \cup {None}

Default(v, d) == IF v = None THEN d ELSE v[1]

NoCall == [fn |-> "none"]

NoRet == [kind |-> "none"]

\* A file system without directories and files.
NoFiles == [dirs |-> {}, files |-> <<>>]

(***************************************************************************)
(* Bounds of the model.                                                    *)
(***************************************************************************)
MaxStrata == 5
MaxTotal == 4
MaxSeries == 2
MaxData == 5
MaxBenford == 2

(***************************************************************************)
(* Arithmetic helpers.                                                     *)
(***************************************************************************)
Abs(x) == IF x < 0 THEN 0 - x ELSE x

Sign(x) == IF x > 0 THEN 1 ELSE IF x < 0 THEN 0 - 1 ELSE 0

RECURSIVE SumSeq(_)
SumSeq(s) == IF s = <<>> THEN 0 ELSE Head(s) + SumSeq(Tail(s))

RECURSIVE ISqrtIter(_, _, _)
ISqrtIter(x, lo, hi) ==
    IF lo >= hi THEN lo
    ELSE LET mid == (lo + hi + 1) \div 2
         IN  IF mid * mid <= x THEN ISqrtIter(x, mid, hi)
             ELSE ISqrtIter(x, lo, mid - 1)

\* floor(sqrt(x)) for 0 <= x < 2^31
ISqrt(x) == ISqrtIter(x, 0, 46340)

SeqsUpTo(S, k) == UNION {[1..m -> S] : m \in 0..k}

(***************************************************************************)
(* utils/sampling.py: stratified_sample_allocation                         *)
(***************************************************************************)
SizeVals == {1, 2}
VarVals == {0, 4}
TotalVals == (0 - 1)..MaxTotal

\* np.sqrt of a variance, per mille.
np_sqrt(v) == ISqrt(v * 1000000)

\* numpy broadcasting of two 1-d arrays: the shapes agree or one of them is 1.
Broadcastable(la, lb) == la = lb \/ la = 1 \/ lb = 1

BroadcastLen(la, lb) == IF la = 1 THEN lb ELSE la

Stretch(s, L) == IF Len(s) = L THEN s ELSE [i \in 1..L |-> s[1]]

\* strata_sizes * np.sqrt(strata_variances), elementwise
NeymanWeights(sizes, variances) ==
    LET L == BroadcastLen(Len(sizes), Len(variances))
        sz == Stretch(sizes, L)
        vr == Stretch(variances, L)
    IN  [i \in 1..L |-> sz[i] * np_sqrt(vr[i])]

\* np.round of the rational p/q (q > 0): to nearest, ties to the even integer.
np_round(p, q) ==
    LET fl == p \div q
        r == p - fl * q
    IN  IF 2 * r < q THEN fl
        ELSE IF 2 * r > q THEN fl + 1
        ELSE IF fl % 2 = 0 THEN fl ELSE fl + 1

\* np.round(weights / weights.sum() * total_sample_size).astype(int)
RoundedShares(weights, total) ==
    LET W == SumSeq(weights)
    IN  [i \in 1..Len(weights) |-> np_round(weights[i] * total, W)]

\* An argmax that returns the last position of the largest entry.
np_argmax_last(a) ==
    CHOOSE i \in 1..Len(a) :
        /\ \A j \in 1..Len(a) : a[j] <= a[i]
        /\ \A j \in (i + 1)..Len(a) : a[j] < a[i]

\* np.argmax: the first position of the largest entry.
np_argmax(a) ==
    CHOOSE i \in 1..Len(a) :
        /\ \A j \in 1..Len(a) : a[j] <= a[i]
        /\ \A j \in 1..(i - 1) : a[j] < a[i]

\* A reconciliation that repairs a shortfall only (if diff > 0).
ReconcileShortfallOnly(allocation, total) ==
    LET diff == total - SumSeq(allocation)
    IN  IF diff > 0
        THEN LET idx == np_argmax(allocation)
             IN  [allocation EXCEPT ![idx] = allocation[idx] + diff]
        ELSE allocation

\* allocation[idx] += diff when diff != 0
Reconcile(allocation, total) ==
    LET diff == total - SumSeq(allocation)
    IN  IF diff # 0
        THEN LET idx == np_argmax(allocation)
             IN  [allocation EXCEPT ![idx] = allocation[idx] + diff]
        ELSE allocation

stratified_sample_allocation(sizes, variances, total) ==
    IF ~Broadcastable(Len(sizes), Len(variances))
    THEN \* operands could not be broadcast together
         [kind |-> "ValueError"]
    ELSE LET weights == NeymanWeights(sizes, variances)
         IN  IF weights = <<>>
             THEN \* empty arrays: argmax of an empty sequence when diff != 0
                  IF total # 0 THEN [kind |-> "ValueError"]
                  ELSE [kind |-> "array", value |-> <<>>]
             ELSE IF SumSeq(weights) = 0
             THEN \* 0/0 = nan, cast to int: no meaningful allocation
                  [kind |-> "nan"]
             ELSE [kind |-> "array",
                   value |-> Reconcile(RoundedShares(weights, total), total)]

StratifiedSampleAllocation ==
    /\ pc = "idle"
    /\ \E sizes \in SeqsUpTo(SizeVals, MaxStrata),
          variances \in SeqsUpTo(VarVals, MaxStrata),
          total \in TotalVals :
          /\ call' = [fn |-> "stratified_sample_allocation",
                      strata_sizes |-> sizes,
                      strata_variances |-> variances,
                      total_sample_size |-> total]
          /\ ret' = stratified_sample_allocation(sizes, variances, total)
    /\ pc' = "done"
    /\ UNCHANGED <<frame, n, effect_size, prev, heap, site, fs>>

(***************************************************************************)
(* Floats that matter to the logarithm formulas: a finite rational         *)
(* num/den (den > 0), an infinity with its sign, or nan.  numpy float64    *)
(* arithmetic does not raise on log(0) or x/0; only int() does.            *)
(***************************************************************************)
Fin(p, q) == [t |-> "fin", num |-> p, den |-> q]
Inf(sgn) == [t |-> "inf", num |-> sgn, den |-> 0]
NaN == [t |-> "nan", num |-> 0, den |-> 0]

\* ln(x / 1000) * 10^4, rounded, on the grid of arguments the calls use.
LnTab(x) ==
    CASE x = 10 -> 0 - 46052
      [] x = 50 -> 0 - 29957
      [] x = 100 -> 0 - 23026
      [] x = 500 -> 0 - 6931
      [] x = 900 -> 0 - 1054
      [] x = 950 -> 0 - 513
      [] x = 990 -> 0 - 101
      [] x = 1000 -> 0
      [] x = 1500 -> 4055

\* np.log of x per mille: nan below 0, -inf at 0.
np_log(x) ==
    IF x < 0 THEN NaN
    ELSE IF x = 0 THEN Inf(0 - 1)
    ELSE Fin(LnTab(x), 10000)

FNeg(a) == IF a.t = "nan" THEN NaN ELSE [a EXCEPT !.num = 0 - a.num]

\* a * (p/q) for a positive rational p/q
FScale(a, p, q) ==
    IF a.t = "fin" THEN Fin(a.num * p, a.den * q) ELSE a

\* float64 division a / b; a zero divisor here is always +0.0
FDiv(a, b) ==
    IF a.t = "nan" \/ b.t = "nan" THEN NaN
    ELSE IF a.t = "inf"
         THEN IF b.t = "inf" THEN NaN
              ELSE Inf(a.num * (IF b.num < 0 THEN 0 - 1 ELSE 1))
    ELSE IF b.t = "inf" THEN Fin(0, 1)
    ELSE IF b.num = 0
         THEN IF a.num = 0 THEN NaN ELSE Inf(Sign(a.num))
    ELSE Fin(a.num * b.den * Sign(b.num), a.den * b.num * Sign(b.num))

\* int(np.ceil(x)): int() raises on an infinity and on nan.
IntCeil(x) ==
    IF x.t = "nan" THEN [kind |-> "ValueError"]
    ELSE IF x.t = "inf" THEN [kind |-> "OverflowError"]
    ELSE [kind |-> "int", value |-> 0 - ((0 - x.num) \div x.den)]

(***************************************************************************)
(* core/sampling.py: discovery_sample_size                                 *)
(***************************************************************************)
ProbVals == {0 - 500, 0, 10, 50, 100, 500, 900, 950, 990, 1000, 1500}

\* A domain check that lets the end points 0 and 1 through.
OutsideClosedUnit(x) == x < 0 \/ x > 1000

\* x <= 0 or x >= 1
OutsideOpenUnit(x) == x <= 0 \/ x >= 1000

\* A formula with numerator and denominator exchanged.
DiscoveryFormulaSwapped(confidence, rate) ==
    IntCeil(FDiv(np_log(1000 - rate), np_log(1000 - confidence)))

\* np.log(1 - confidence) / np.log(1 - rate), then int(np.ceil(n))
DiscoveryFormula(confidence, rate) ==
    IntCeil(FDiv(np_log(1000 - confidence), np_log(1000 - rate)))

discovery_sample_size(confidence_arg, intolerable_rate_arg) ==
    LET confidence == Default(confidence_arg, 950)
        intolerable_rate == Default(intolerable_rate_arg, 50)
    IN  IF OutsideOpenUnit(intolerable_rate) THEN [kind |-> "ValueError"]
        ELSE IF OutsideOpenUnit(confidence) THEN [kind |-> "ValueError"]
        ELSE DiscoveryFormula(confidence, intolerable_rate)

DiscoverySampleSize ==
    /\ pc = "idle"
    /\ \E c \in Optional(ProbVals), r \in Optional(ProbVals) :
          /\ call' = [fn |-> "core.discovery_sample_size",
                      confidence |-> c, intolerable_rate |-> r]
          /\ ret' = discovery_sample_size(c, r)
    /\ pc' = "done"
    /\ UNCHANGED <<frame, n, effect_size, prev, heap, site, fs>>

(***************************************************************************)
(* utils/sampling.py: discovery_sample_size, monetary_unit_sample_size     *)
(* (the calculators exported at package level)                             *)
(***************************************************************************)
utils_discovery_sample_size(confidence, intolerable_error_rate) ==
    IntCeil(FDiv(np_log(1000 - confidence), np_log(1000 - intolerable_error_rate)))

UtilsDiscoverySampleSize ==
    /\ pc = "idle"
    /\ \E c \in ProbVals, r \in ProbVals :
          /\ call' = [fn |-> "utils.discovery_sample_size",
                      confidence |-> c, intolerable_error_rate |-> r]
          /\ ret' = utils_discovery_sample_size(c, r)
    /\ pc' = "done"
    /\ UNCHANGED <<frame, n, effect_size, prev, heap, site, fs>>

PopulationVals == {1, 20}
TolerableVals == {0, 1, 3}
ExpectedErrorVals == {0 - 100, 0, 50, 500}

\* A risk factor that is scaled by 1 + expected_error_rate whatever its sign.
RiskFactorAlwaysScaled(confidence, expected_error_rate) ==
    FScale(FNeg(np_log(1000 - confidence)), 1000 + expected_error_rate, 1000)

\* risk_factor = -np.log(1 - confidence), inflated when expected errors > 0
RiskFactor(confidence, expected_error_rate) ==
    LET risk_factor == FNeg(np_log(1000 - confidence))
    IN  IF expected_error_rate > 0
        THEN FScale(risk_factor, 1000 + expected_error_rate, 1000)
        ELSE risk_factor

monetary_unit_sample_size(population_value, tolerable_error, conf_arg, eer_arg) ==
    LET confidence == Default(conf_arg, 950)
        expected_error_rate == Default(eer_arg, 0)
        risk_factor == RiskFactor(confidence, expected_error_rate)
    IN  IntCeil(FDiv(FScale(risk_factor, population_value, 1),
                     Fin(tolerable_error, 1)))

MonetaryUnitSampleSize ==
    /\ pc = "idle"
    /\ \E pv \in PopulationVals, te \in TolerableVals,
          c \in Optional(ProbVals), e \in Optional(ExpectedErrorVals) :
          /\ call' = [fn |-> "utils.monetary_unit_sample_size",
                      population_value |-> pv, tolerable_error |-> te,
                      confidence |-> c, expected_error_rate |-> e]
          /\ ret' = monetary_unit_sample_size(pv, te, c, e)
    /\ pc' = "done"
    /\ UNCHANGED <<frame, n, effect_size, prev, heap, site, fs>>

(***************************************************************************)
(* core/statistics.py: foot_and_agree                                      *)
(* Amounts are integers in units of 1e-11; a missing value (NaN) of a      *)
(* series is <<>>, which pandas' sum() skips.                              *)
(***************************************************************************)
AmountVals == {0, 9, 10, 11}
ExpectedVals == {0, 20}
ColumnNames == {"amount", "memo"}

\* 1e-10
Tolerance == 10

\* values.sum() with skipna
RECURSIVE pd_sum(_)
pd_sum(values) ==
    IF values = <<>> THEN 0
    ELSE Default(Head(values), 0) + pd_sum(Tail(values))

\* An agreement test that also accepts a difference of exactly 1e-10.
AgreesInclusive(difference) == Abs(difference) <= Tolerance

\* bool(np.abs(difference) < 1e-10)
Agrees(difference) == Abs(difference) < Tolerance

Series(values) == [type |-> "Series", values |-> values]

\* A table with the single column "amount".
DataFrame(values) == [type |-> "DataFrame", amount |-> values]

\* A footing that tests the expected total for truth (if expected_total:), so
\* that an expected total of 0 counts as not supplied.
foot_and_agree_truthy(data, column, expected_total) ==
    IF data.type = "DataFrame" /\ column = None
    THEN [kind |-> "ValueError"]
    ELSE IF data.type = "DataFrame" /\ column[1] \notin (DOMAIN data \ {"type"})
    THEN [kind |-> "KeyError"]
    ELSE LET values == IF data.type = "DataFrame" THEN data[column[1]]
                       ELSE data.values
             total == pd_sum(values)
         IN  IF expected_total # None /\ expected_total # <<0>>
             THEN LET difference == total - expected_total[1]
                  IN  [kind |-> "dict", total |-> total,
                       agrees |-> Agrees(difference),
                       difference |-> difference]
             ELSE [kind |-> "dict", total |-> total]

\* A footing that asks for the column name only when there is an expected
\* total to agree to, and sums the only column otherwise.
foot_and_agree_lenient(data, column, expected_total) ==
    IF data.type = "DataFrame" /\ column = None /\ expected_total # None
    THEN [kind |-> "ValueError"]
    ELSE IF data.type = "DataFrame" /\ column # None
            /\ column[1] \notin (DOMAIN data \ {"type"})
    THEN [kind |-> "KeyError"]
    ELSE LET values == IF data.type = "DataFrame" THEN data.amount
                       ELSE data.values
             total == pd_sum(values)
         IN  IF expected_total # None
             THEN LET difference == total - expected_total[1]
                  IN  [kind |-> "dict", total |-> total,
                       agrees |-> Agrees(difference),
                       difference |-> difference]
             ELSE [kind |-> "dict", total |-> total]

foot_and_agree(data, column, expected_total) ==
    IF data.type = "DataFrame" /\ column = None
    THEN [kind |-> "ValueError"]
    ELSE IF data.type = "DataFrame" /\ column[1] \notin (DOMAIN data \ {"type"})
    THEN [kind |-> "KeyError"]
    ELSE LET values == IF data.type = "DataFrame" THEN data[column[1]]
                       ELSE data.values
             total == pd_sum(values)
         IN  IF expected_total # None
             THEN LET difference == total - expected_total[1]
                  IN  [kind |-> "dict", total |-> total,
                       agrees |-> Agrees(difference),
                       difference |-> difference]
             ELSE [kind |-> "dict", total |-> total]

FootAndAgree ==
    /\ pc = "idle"
    /\ \E values \in SeqsUpTo(Optional(AmountVals), MaxSeries),
          tabular \in BOOLEAN,
          column \in Optional(ColumnNames),
          expected_total \in Optional(ExpectedVals) :
          LET data == IF tabular THEN DataFrame(values) ELSE Series(values)
          IN  /\ call' = [fn |-> "foot_and_agree", data |-> data,
                          column |-> column,
                          expected_total |-> expected_total]
              /\ ret' = foot_and_agree(data, column, expected_total)
    /\ pc' = "done"
    /\ UNCHANGED <<frame, n, effect_size, prev, heap, site, fs>>

(***************************************************************************)
(* core/statistics.py: detect_outliers                                     *)
(* data is a pandas Series with the default index 0, 1, 2, ... or a plain  *)
(* numpy array; a missing value (NaN) is <<>>.  Indices are 0-based as in  *)
(* the source.  threshold is given in halves (1.5 -> 3).  The quartiles    *)
(* are carried times 4, which is exact for integer data.                   *)
(***************************************************************************)
DataVals == {0, 2, 5}
ThresholdVals == {2, 3}
MethodVals == {"iqr", "zscore", "modified_zscore", "mad"}

\* [1, 2, 3, 4, 5, 6, 7, 8, 9, 100] of test_iqr_method
ReferenceData == <<<<1>>, <<2>>, <<3>>, <<4>>, <<5>>, <<6>>, <<7>>, <<8>>, <<9>>, <<100>>>>

\* np.percentile of an empty array: nan, or IndexError in older releases.
PercentileOfEmpty == {"nan", "IndexError"}

\* The positions 1..Len(data) that hold a value, in order.
RECURSIVE NotNaPositions(_, _)
NotNaPositions(data, i) ==
    IF i > Len(data) THEN <<>>
    ELSE IF data[i] = None THEN NotNaPositions(data, i + 1)
    ELSE <<i>> \o NotNaPositions(data, i + 1)

\* data.dropna().values, data[~np.isnan(data)]
dropna_values(data) ==
    LET pos == NotNaPositions(data, 1)
    IN  [i \in 1..Len(pos) |-> data[pos[i]][1]]

\* data.dropna().index: the labels of the values that are kept
dropna_index(data) ==
    LET pos == NotNaPositions(data, 1)
    IN  [i \in 1..Len(pos) |-> pos[i] - 1]

\* np.arange(len(values))
np_arange(len) == [i \in 1..len |-> i - 1]

\* np.sort: the k-th smallest value at position k
np_sort(values) ==
    [k \in 1..Len(values) |->
        CHOOSE x \in {values[i] : i \in 1..Len(values)} :
            /\ Cardinality({i \in 1..Len(values) : values[i] < x}) < k
            /\ Cardinality({i \in 1..Len(values) : values[i] <= x}) >= k]

\* 4 * np.percentile(values, q) for q in {25, 75}, linear interpolation
np_percentile4(values, q) ==
    LET sorted == np_sort(values)
        pos100 == (Len(values) - 1) * q
        lo == pos100 \div 100
        hi == IF lo + 1 < Len(values) THEN lo + 1 ELSE lo
        quarters == (pos100 % 100) \div 25
    IN  4 * sorted[lo + 1] + quarters * (sorted[hi + 1] - sorted[lo + 1])

\* 2 * np.median(values)
np_median2(values) ==
    LET sorted == np_sort(values)
        len == Len(values)
    IN  IF len % 2 = 1 THEN 2 * sorted[(len + 1) \div 2]
        ELSE sorted[len \div 2] + sorted[len \div 2 + 1]

\* An IQR test that also flags a value lying exactly on a bound.
iqr_mask_inclusive(values, threshold2) ==
    LET q1 == np_percentile4(values, 25)
        q3 == np_percentile4(values, 75)
        iqr == q3 - q1
        lower_bound == 2 * q1 - threshold2 * iqr
        upper_bound == 2 * q3 + threshold2 * iqr
    IN  [i \in 1..Len(values) |->
            (8 * values[i] <= lower_bound) \/ (8 * values[i] >= upper_bound)]

\* (values < lower_bound) | (values > upper_bound), every term times 8
iqr_mask(values, threshold2) ==
    LET q1 == np_percentile4(values, 25)
        q3 == np_percentile4(values, 75)
        iqr == q3 - q1
        lower_bound == 2 * q1 - threshold2 * iqr
        upper_bound == 2 * q3 + threshold2 * iqr
    IN  [i \in 1..Len(values) |->
            (8 * values[i] < lower_bound) \/ (8 * values[i] > upper_bound)]

\* np.abs(stats.zscore(values)) > threshold with the population deviation;
\* a zero deviation gives nan, which compares False.
zscore_mask(values, threshold2) ==
    LET len == Len(values)
        total == SumSeq(values)
        squares == SumSeq([i \in 1..len |-> values[i] * values[i]])
        var == len * squares - total * total
    IN  [i \in 1..len |->
            LET dev == len * values[i] - total
            IN  var > 0 /\ 4 * dev * dev > threshold2 * threshold2 * var]

\* 0.6745 * (values - median) / mad, in absolute value, > threshold; mad = 0
\* gives inf for a value off the median and nan for a value on it.
modified_zscore_mask(values, threshold2) ==
    LET median2 == np_median2(values)
        dev2 == [i \in 1..Len(values) |-> Abs(2 * values[i] - median2)]
        mad4 == np_median2(dev2)
    IN  [i \in 1..Len(values) |->
            IF mad4 = 0 THEN dev2[i] > 0
            ELSE 6745 * 4 * dev2[i] > threshold2 * 10000 * mad4]

\* seq[mask]
RECURSIVE BoolIndex(_, _)
BoolIndex(seq, mask) ==
    IF seq = <<>> THEN <<>>
    ELSE (IF Head(mask) THEN <<Head(seq)>> ELSE <<>>)
             \o BoolIndex(Tail(seq), Tail(mask))

OutlierReport(method, index, values, outliers_mask) ==
    [kind |-> "dict",
     method |-> method,
     n_outliers |-> Len(BoolIndex(values, outliers_mask)),
     outlier_indices |-> BoolIndex(index, outliers_mask),
     outlier_values |-> BoolIndex(values, outliers_mask),
     outlier_mask |-> outliers_mask]

detect_outliers(data, method_arg, threshold_arg, on_empty) ==
    LET method == Default(method_arg, "iqr")
        threshold2 == Default(threshold_arg, 3)
        values == dropna_values(data.values)
        index == IF data.type = "Series" THEN dropna_index(data.values)
                 ELSE np_arange(Len(values))
    IN  IF method = "iqr"
        THEN IF values = <<>>
             THEN IF on_empty = "IndexError" THEN [kind |-> "IndexError"]
                  ELSE OutlierReport(method, index, values, <<>>)
             ELSE OutlierReport(method, index, values,
                                iqr_mask(values, threshold2))
        ELSE IF method = "zscore"
        THEN OutlierReport(method, index, values,
                           zscore_mask(values, threshold2))
        ELSE IF method = "modified_zscore"
        THEN OutlierReport(method, index, values,
                           modified_zscore_mask(values, threshold2))
        ELSE [kind |-> "ValueError"]

ndarray(values) == [type |-> "ndarray", values |-> values]

DetectOutliers ==
    /\ pc = "idle"
    /\ \E values \in SeqsUpTo(Optional(DataVals), MaxData) \cup {ReferenceData},
          series \in BOOLEAN,
          method \in Optional(MethodVals),
          threshold \in Optional(ThresholdVals),
          on_empty \in PercentileOfEmpty :
          LET data == IF series THEN Series(values) ELSE ndarray(values)
          IN  /\ call' = [fn |-> "detect_outliers", data |-> data,
                          method |-> method, threshold |-> threshold]
              /\ ret' = detect_outliers(data, method, threshold, on_empty)
    /\ pc' = "done"
    /\ UNCHANGED <<frame, n, effect_size, prev, heap, site, fs>>

(***************************************************************************)
(* utils/sampling.py: benford_analysis                                     *)
(* A number is its sign, its integer part and the digits of its fraction   *)
(* (no trailing zero).  np.array(data) is an int64 array when every entry  *)
(* is a Python int and a float64 array otherwise; astype(str) renders each *)
(* entry as a sequence of characters.  Frequencies are per 10^4.  The      *)
(* observed frequencies and the chi-square values, which are floats        *)
(* derived from the counts, are not carried.                               *)
(***************************************************************************)
Number(neg, int, frac) == [neg |-> neg, int |-> int, frac |-> frac]

\* -1, 0, 0.00001, 0.05, 0.5, 7, 12, 345
NumberVals ==
    {Number(TRUE, 1, <<>>), Number(FALSE, 0, <<>>),
     Number(FALSE, 0, <<0, 0, 0, 0, 1>>), Number(FALSE, 0, <<0, 5>>),
     Number(FALSE, 0, <<5>>), Number(FALSE, 7, <<>>),
     Number(FALSE, 12, <<>>), Number(FALSE, 345, <<>>)}

DigitPositionVals == {1, 2, 3}

DigitChar == <<"0", "1", "2", "3", "4", "5", "6", "7", "8", "9">>

\* The decimal digits of a natural number as characters, most significant first.
RECURSIVE IntChars(_)
IntChars(k) ==
    IF k < 10 THEN <<DigitChar[k + 1]>>
    ELSE IntChars(k \div 10) \o <<DigitChar[(k % 10) + 1]>>

FracChars(frac) == [i \in 1..Len(frac) |-> DigitChar[frac[i] + 1]]

\* The number of zeros that open a fraction.
RECURSIVE LeadingZeros(_)
LeadingZeros(frac) ==
    IF frac = <<>> \/ Head(frac) # 0 THEN 0
    ELSE 1 + LeadingZeros(Tail(frac))

IsPositive(v) == ~v.neg /\ (v.int > 0 \/ v.frac # <<>>)

\* str of a float64: the shortest repr, in scientific notation below 1e-4.
\* (Numbers of 1e16 and more are not among the inputs.)
float_str(v) ==
    LET sign == IF v.neg THEN <<"-">> ELSE <<>>
        z == LeadingZeros(v.frac)
    IN  IF v.int = 0 /\ z >= 4
        THEN LET mant == SubSeq(v.frac, z + 1, Len(v.frac))
                 exp == z + 1
             IN  sign \o <<DigitChar[mant[1] + 1]>>
                      \o (IF Len(mant) > 1
                          THEN <<".">> \o FracChars(Tail(mant)) ELSE <<>>)
                      \o <<"e", "-">>
                      \o (IF exp < 10 THEN <<"0">> ELSE <<>>) \o IntChars(exp)
        ELSE sign \o IntChars(v.int) \o <<".">>
                  \o (IF v.frac = <<>> THEN <<"0">> ELSE FracChars(v.frac))

\* str of an int64
int_str(v) == (IF v.neg THEN <<"-">> ELSE <<>>) \o IntChars(v.int)

\* np.array(data).dtype
np_dtype(data) ==
    IF \A i \in 1..Len(data) : ~data[i].float
    THEN "int64" ELSE "float64"

\* val.replace('.', '').replace('-', '')
val_clean(chars) == SelectSeq(chars, LAMBDA c : c \notin {".", "-"})

\* int(c) of one character: the digit, or -1 where int() raises ValueError
int_of_char(c) ==
    IF \E d \in 0..9 : DigitChar[d + 1] = c
    THEN CHOOSE d \in 0..9 : DigitChar[d + 1] = c
    ELSE 0 - 1

\* data[data > 0].astype(str), cleaned
benford_strings(data) ==
    LET positive == SelectSeq(data, IsPositive)
        dtype == np_dtype(data)
    IN  [i \in 1..Len(positive) |->
            val_clean(IF dtype = "int64" THEN int_str(positive[i])
                      ELSE float_str(positive[i]))]

\* The loop over data_str: one digit for every string that is long enough.
benford_digits(strings, digit) ==
    LET long == SelectSeq(strings, LAMBDA str : Len(str) >= digit)
    IN  [i \in 1..Len(long) |-> int_of_char(long[i][digit])]

\* A digit domain that is range(1, 10) whatever the position.
possible_digits_leading(digit) == [i \in 1..9 |-> i]

\* range(1, 10) if digit == 1 else range(0, 10)
possible_digits(digit) ==
    IF digit = 1 THEN [i \in 1..9 |-> i] ELSE [i \in 1..10 |-> i - 1]

\* 10^4 * log10(1 + 1/d) for d = 1..9
BenfordFreq == <<3010, 1761, 1249, 969, 792, 669, 580, 512, 458>>

expected_freq(digit) ==
    IF digit = 1 THEN BenfordFreq ELSE [i \in 1..10 |-> 1000]

\* np.sum(digits == d)
CountOf(digits, d) == Cardinality({i \in 1..Len(digits) : digits[i] = d})

benford_analysis(data, digit_arg) ==
    LET digit == Default(digit_arg, 1)
        digits == benford_digits(benford_strings(data), digit)
    IN  IF \E i \in 1..Len(digits) : digits[i] < 0
        THEN [kind |-> "ValueError"]
        ELSE LET domain == possible_digits(digit)
                 freq == expected_freq(digit)
                 observed_counts == [i \in 1..Len(domain) |->
                                        CountOf(digits, domain[i])]
                 total == SumSeq(observed_counts)
             IN  [kind |-> "DataFrame",
                  rows |-> [i \in 1..Len(domain) |->
                               [Digit |-> domain[i],
                                Expected_Freq |-> freq[i],
                                Observed_Count |-> observed_counts[i],
                                Expected_Count |-> freq[i] * total]],
                  chi2_df |-> Len(domain) - 1]

\* A list entry as the caller writes it: a number, as a Python int or float.
BenfordEntries ==
    {e \in [neg : BOOLEAN, int : {v.int : v \in NumberVals},
            frac : {v.frac : v \in NumberVals}, float : BOOLEAN] :
        /\ Number(e.neg, e.int, e.frac) \in NumberVals
        /\ e.frac # <<>> => e.float}

BenfordAnalysis ==
    /\ pc = "idle"
    /\ \E data \in SeqsUpTo(BenfordEntries, MaxBenford),
          digit \in Optional(DigitPositionVals) :
          /\ call' = [fn |-> "benford_analysis", data |-> data,
                      digit |-> digit]
          /\ ret' = benford_analysis(data, digit)
    /\ pc' = "done"
    /\ UNCHANGED <<frame, n, effect_size, prev, heap, site, fs>>

(***************************************************************************)
(* scipy.stats.t as used by the power search: the quantile of the central  *)
(* t distribution and the cdf of the noncentral t distribution, in fixed   *)
(* point through their normal approximations.                              *)
(***************************************************************************)
\* 1000 * Phi(k / 4) for k = 0..16
PhiTab ==
    <<500, 599, 691, 773, 841, 894, 933, 960, 977, 988, 994, 997, 999, 999,
      1000, 1000, 1000>>

\* The standard normal cdf: x per mille -> probability per mille.
RECURSIVE norm_cdf(_)
norm_cdf(x) ==
    IF x < 0 THEN 1000 - norm_cdf(0 - x)
    ELSE IF x >= 4000 THEN 1000
    ELSE LET k == x \div 250
             lo == PhiTab[k + 1]
             hi == PhiTab[k + 2]
         IN  lo + ((hi - lo) * (x % 250)) \div 250

\* The standard normal quantile on the probabilities the search asks for.
norm_ppf(q) ==
    CASE q = 25 -> 0 - 1960
      [] q = 50 -> 0 - 1645
      [] q = 100 -> 0 - 1282
      [] q = 500 -> 0
      [] q = 800 -> 842
      [] q = 900 -> 1282
      [] q = 950 -> 1645
      [] q = 975 -> 1960

\* t_dist.ppf(q, df): z + (z^3 + z) / (4 df)
t_ppf(q, df) ==
    LET z == norm_ppf(q)
        a == Abs(z)
        cube == (((a * a) \div 1000) * a) \div 1000
    IN  Sign(z) * (a + (cube + a) \div (4 * df))

\* t_dist.cdf(x, df, ncp):
\* Phi((x (1 - 1/(4 df)) - ncp) / sqrt(1 + x^2 / (2 df)))
nct_cdf(x, df, ncp) ==
    LET num == x - Sign(x) * (Abs(x) \div (4 * df)) - ncp
        den == ISqrt(1000000 + (x * x) \div (2 * df))
    IN  norm_cdf(Sign(num) * ((Abs(num) * 1000) \div den))

\* effect_size * np.sqrt(n)
NonCentrality(effect, m) == Sign(effect) * ((Abs(effect) * ISqrt(m * 10000)) \div 100)

(***************************************************************************)
(* utils/sampling.py: attribute_sample_size (the closed form exported at   *)
(* package level).  delta_pct and sigma_pct are per mille.                 *)
(***************************************************************************)
UtilsSizeVals == {1, 1000}
DeltaPctVals == {0, 50}
SigmaPctVals == {0, 300}
UtilsSigLevelVals == {50, 500}
UtilsPowerVals == {500, 900}

utils_attribute_sample_size(size, delta_pct, sigma_pct, sig_level_arg, power_arg) ==
    LET sig_level == Default(sig_level_arg, 50)
        power == Default(power_arg, 800)
        delta == delta_pct * size
        sigma == sigma_pct * size
        z == norm_ppf(1000 - sig_level) + norm_ppf(power)
    IN  IF sigma = 0
        THEN \* effect = delta / sigma with Python floats
             [kind |-> "ZeroDivisionError"]
        ELSE IF delta = 0
        THEN \* n / 0.0 with a numpy float: nan or an infinity, then int()
             IF z = 0 THEN [kind |-> "ValueError"]
             ELSE [kind |-> "OverflowError"]
        ELSE LET ratio == (Abs(z) * sigma) \div delta
             IN  IntCeil(Fin(ratio * ratio, 1000000))

UtilsAttributeSampleSize ==
    /\ pc = "idle"
    /\ \E size \in UtilsSizeVals, delta_pct \in DeltaPctVals,
          sigma_pct \in SigmaPctVals,
          sig_level \in Optional(UtilsSigLevelVals),
          power \in Optional(UtilsPowerVals) :
          /\ call' = [fn |-> "utils.attribute_sample_size", size |-> size,
                      delta_pct |-> delta_pct, sigma_pct |-> sigma_pct,
                      sig_level |-> sig_level, power |-> power]
          /\ ret' = utils_attribute_sample_size(size, delta_pct, sigma_pct,
                                                sig_level, power)
    /\ pc' = "done"
    /\ UNCHANGED <<frame, n, effect_size, prev, heap, site, fs>>

(***************************************************************************)
(* core/sampling.py: attribute_sample_size                                 *)
(***************************************************************************)
SearchStart == 10
SearchCap == 10000

AlternativeVals == {"greater", "less", "two-sided", "both"}

\* A search that tries every second candidate only.
SkipCandidate(m) == m + 2

\* A search that doubles the candidate.
DoubleCandidate(m) == m * 2

\* n += 1
NextCandidate(m) == m + 1

\* while n < 10000
occ_WithinCap(m) == m < SearchCap

occ_t_alpha(alternative, sig_level, df) ==
    IF alternative = "greater" THEN t_ppf(1000 - sig_level, df)
    ELSE IF alternative = "less" THEN t_ppf(sig_level, df)
    ELSE t_ppf(1000 - sig_level \div 2, df)

\* A power computation whose last branch is the one of "greater".
occ_calc_power_strict(alternative, t_alpha, df, ncp) ==
    IF alternative = "two-sided"
    THEN 1000 - nct_cdf(t_alpha, df, ncp) + nct_cdf(0 - t_alpha, df, ncp)
    ELSE IF alternative = "less" THEN nct_cdf(t_alpha, df, ncp)
    ELSE 1000 - nct_cdf(t_alpha, df, ncp)

occ_calc_power(alternative, t_alpha, df, ncp) ==
    IF alternative = "greater" THEN 1000 - nct_cdf(t_alpha, df, ncp)
    ELSE IF alternative = "less" THEN nct_cdf(t_alpha, df, ncp)
    ELSE 1000 - nct_cdf(t_alpha, df, ncp) + nct_cdf(0 - t_alpha, df, ncp)

\* calc_power of one pass of the loop body with candidate m
occ_power_at(f, effect, m) ==
    LET df == m - 1
        t_alpha == occ_t_alpha(f.alternative, f.sig_level, df)
        ncp == NonCentrality(effect, m)
    IN  occ_calc_power(f.alternative, t_alpha, df, ncp)

\* Parameters whose default of sigma_rate is 0.2 * size.
attribute_sample_size_frame_sigma20(size, delta_rate, sigma_rate, sig_level, power, alternative) ==
    [fn |-> "attribute_sample_size",
     size |-> size,
     delta_rate |-> Default(delta_rate, 50),
     sigma_rate |-> IF sigma_rate = None THEN (2 * size) \div 10
                    ELSE sigma_rate[1],
     sig_level |-> Default(sig_level, 50),
     power |-> Default(power, 800),
     alternative |-> Default(alternative, "greater")]

\* The parameters of attribute_sample_size after its defaults.
attribute_sample_size_frame(size, delta_rate, sigma_rate, sig_level, power, alternative) ==
    [fn |-> "attribute_sample_size",
     size |-> size,
     delta_rate |-> Default(delta_rate, 50),
     sigma_rate |-> IF sigma_rate = None THEN (3 * size) \div 10
                    ELSE sigma_rate[1],
     sig_level |-> Default(sig_level, 50),
     power |-> Default(power, 800),
     alternative |-> Default(alternative, "greater")]

\* delta = delta_rate * size; effect_size = delta / sigma_rate
occ_effect_size(f) ==
    Sign(f.delta_rate) * ((Abs(f.delta_rate) * f.size) \div f.sigma_rate)

(***************************************************************************)
(* Arguments of the power-search calculators.  A search that never meets   *)
(* its target takes 9990 passes, so the alternative "less" (whose power    *)
(* stays below the significance level for a positive effect) is combined   *)
(* with the defaults of the other optional arguments only.                 *)
(***************************************************************************)
SizeArgVals == {1000}
DeltaRateVals == {50, 300}
SigmaRateVals == {100}
SigLevelVals == {100}
PowerVals == {900}

FewExhausted(delta_rate, sigma, sig_level, power, alternative) ==
    alternative = <<"less">> =>
        (delta_rate = None /\ sigma = None /\ sig_level = None /\ power = None)

AttributeSampleSize ==
    /\ pc = "idle"
    /\ \E size \in SizeArgVals,
          delta_rate \in Optional(DeltaRateVals),
          sigma_rate \in Optional(SigmaRateVals),
          sig_level \in Optional(SigLevelVals),
          power \in Optional(PowerVals),
          alternative \in Optional(AlternativeVals) :
          /\ FewExhausted(delta_rate, sigma_rate, sig_level, power, alternative)
          /\ call' = [fn |-> "attribute_sample_size", size |-> size,
                      delta_rate |-> delta_rate, sigma_rate |-> sigma_rate,
                      sig_level |-> sig_level, power |-> power,
                      alternative |-> alternative]
          /\ frame' = attribute_sample_size_frame(size, delta_rate, sigma_rate,
                                                  sig_level, power, alternative)
    /\ effect_size' = occ_effect_size(frame')
    /\ n' = SearchStart
    /\ pc' = "loop"
    /\ UNCHANGED <<ret, prev, heap, site, fs>>

\* One pass of the loop that ends in n += 1.
AttributeLoop ==
    /\ pc = "loop"
    /\ frame.fn = "attribute_sample_size"
    /\ occ_WithinCap(n)
    /\ occ_power_at(frame, effect_size, n) < frame.power
    /\ n' = NextCandidate(n)
    /\ UNCHANGED <<pc, call, frame, effect_size, ret, prev, heap, site, fs>>

\* The loop ends (break, or n reached the cap) and the function returns.
AttributeReturn ==
    /\ pc = "loop"
    /\ frame.fn = "attribute_sample_size"
    /\ \/ ~occ_WithinCap(n)
       \/ occ_power_at(frame, effect_size, n) >= frame.power
    /\ ret' = [kind |-> "dict", occurrence |-> n]
    /\ pc' = "done"
    /\ UNCHANGED <<call, frame, n, effect_size, prev, heap, site, fs>>

(***************************************************************************)
(* core/sampling.py: attribute_sample_size_amount, acceptance_sample_size  *)
(***************************************************************************)
TotalAmountVals == {1000, 100000}
MeanTransactionVals == {50}
SigmaVals == {5}

\* A loop test that lets the candidate n = 10000 in.
amt_WithinCapInclusive(m) == m <= SearchCap

\* while n < 10000
amt_WithinCap(m) == m < SearchCap

\* A critical value that does not halve sig_level for the two-sided test.
amt_t_alpha_unhalved(alternative, sig_level, df) ==
    IF alternative = "less" THEN t_ppf(sig_level, df)
    ELSE t_ppf(1000 - sig_level, df)

amt_t_alpha(alternative, sig_level, df) ==
    IF alternative = "greater" THEN t_ppf(1000 - sig_level, df)
    ELSE IF alternative = "less" THEN t_ppf(sig_level, df)
    ELSE t_ppf(1000 - sig_level \div 2, df)

amt_calc_power(alternative, t_alpha, df, ncp) ==
    IF alternative = "greater" THEN 1000 - nct_cdf(t_alpha, df, ncp)
    ELSE IF alternative = "less" THEN nct_cdf(t_alpha, df, ncp)
    ELSE 1000 - nct_cdf(t_alpha, df, ncp) + nct_cdf(0 - t_alpha, df, ncp)

\* calc_power of one pass of the loop body with candidate m
amt_power_at(f, effect, m) ==
    LET df == m - 1
        t_alpha == amt_t_alpha(f.alternative, f.sig_level, df)
        ncp == NonCentrality(effect, m)
    IN  amt_calc_power(f.alternative, t_alpha, df, ncp)

\* The parameters of attribute_sample_size_amount after its defaults.
attribute_sample_size_amount_frame(total_amount, mean_transaction, delta_rate, sigma, sig_level, power, alternative) ==
    [fn |-> "attribute_sample_size_amount",
     total_amount |-> total_amount,
     mean_transaction |-> mean_transaction,
     delta_rate |-> Default(delta_rate, 50),
     sigma |-> Default(sigma, 30),
     sig_level |-> Default(sig_level, 50),
     power |-> Default(power, 800),
     alternative |-> Default(alternative, "greater")]

\* An effect size that shrinks as total_amount grows.
amt_effect_size_diluted(f) ==
    Sign(f.delta_rate) *
        ((Abs(f.delta_rate) * f.mean_transaction)
            \div (f.sigma * (1 + f.total_amount \div 100000)))

\* delta = delta_rate * mean_transaction; effect_size = delta / sigma
amt_effect_size(f) ==
    Sign(f.delta_rate) * ((Abs(f.delta_rate) * f.mean_transaction) \div f.sigma)

\* A delegation whose own default of sigma is 3 instead of 30.
acceptance_sample_size_sigma3(account_balance, mean_transaction, delta_rate, sigma, sig_level, power, alternative) ==
    attribute_sample_size_amount_frame(
        account_balance,
        mean_transaction,
        <<Default(delta_rate, 50)>>,
        <<Default(sigma, 3)>>,
        <<Default(sig_level, 50)>>,
        <<Default(power, 800)>>,
        <<Default(alternative, "greater")>>)

\* acceptance_sample_size fills in its own defaults and passes every
\* argument on, by position, to attribute_sample_size_amount.
acceptance_sample_size_frame(account_balance, mean_transaction, delta_rate, sigma, sig_level, power, alternative) ==
    attribute_sample_size_amount_frame(
        account_balance,
        mean_transaction,
        <<Default(delta_rate, 50)>>,
        <<Default(sigma, 30)>>,
        <<Default(sig_level, 50)>>,
        <<Default(power, 800)>>,
        <<Default(alternative, "greater")>>)

AmountArgs ==
    {a \in [first : TotalAmountVals,
            mean_transaction : MeanTransactionVals,
            delta_rate : Optional(DeltaRateVals),
            sigma : Optional(SigmaVals),
            sig_level : Optional(SigLevelVals),
            power : Optional(PowerVals),
            alternative : Optional(AlternativeVals)] :
        FewExhausted(a.delta_rate, a.sigma, a.sig_level, a.power, a.alternative)}

AmountCall(a) ==
    [fn |-> "attribute_sample_size_amount", total_amount |-> a.first,
     mean_transaction |-> a.mean_transaction, delta_rate |-> a.delta_rate,
     sigma |-> a.sigma, sig_level |-> a.sig_level, power |-> a.power,
     alternative |-> a.alternative]

AcceptanceCall(a) ==
    [fn |-> "acceptance_sample_size", account_balance |-> a.first,
     mean_transaction |-> a.mean_transaction, delta_rate |-> a.delta_rate,
     sigma |-> a.sigma, sig_level |-> a.sig_level, power |-> a.power,
     alternative |-> a.alternative]

\* The arguments of a call to either function, whatever the first is called.
ArgsOf(c) ==
    [first |-> IF c.fn = "acceptance_sample_size" THEN c.account_balance
               ELSE c.total_amount,
     mean_transaction |-> c.mean_transaction, delta_rate |-> c.delta_rate,
     sigma |-> c.sigma, sig_level |-> c.sig_level, power |-> c.power,
     alternative |-> c.alternative]

\* Entry of attribute_sample_size_amount, up to n = 10.
EnterAmount(a) ==
    /\ frame' = attribute_sample_size_amount_frame(
                    a.first, a.mean_transaction, a.delta_rate, a.sigma,
                    a.sig_level, a.power, a.alternative)
    /\ effect_size' = amt_effect_size(frame')
    /\ n' = SearchStart
    /\ pc' = "loop"

\* Entry of acceptance_sample_size, up to n = 10 in the function it calls.
EnterAcceptance(a) ==
    /\ frame' = acceptance_sample_size_frame(
                    a.first, a.mean_transaction, a.delta_rate, a.sigma,
                    a.sig_level, a.power, a.alternative)
    /\ effect_size' = amt_effect_size(frame')
    /\ n' = SearchStart
    /\ pc' = "loop"

AttributeSampleSizeAmount ==
    /\ pc = "idle"
    /\ \E a \in AmountArgs :
          /\ call' = AmountCall(a)
          /\ EnterAmount(a)
    /\ UNCHANGED <<ret, prev, heap, site, fs>>

AcceptanceSampleSize ==
    /\ pc = "idle"
    /\ \E a \in AmountArgs :
          /\ call' = AcceptanceCall(a)
          /\ EnterAcceptance(a)
    /\ UNCHANGED <<ret, prev, heap, site, fs>>

\* One pass of the loop that ends in n += 1.
AmountLoop ==
    /\ pc = "loop"
    /\ frame.fn = "attribute_sample_size_amount"
    /\ amt_WithinCap(n)
    /\ amt_power_at(frame, effect_size, n) < frame.power
    /\ n' = NextCandidate(n)
    /\ UNCHANGED <<pc, call, frame, effect_size, ret, prev, heap, site, fs>>

\* The loop ends (break, or n reached the cap) and the function returns;
\* acceptance_sample_size returns what attribute_sample_size_amount returned.
AmountReturn ==
    /\ pc = "loop"
    /\ frame.fn = "attribute_sample_size_amount"
    /\ \/ ~amt_WithinCap(n)
       \/ amt_power_at(frame, effect_size, n) >= frame.power
    /\ ret' = [kind |-> "int", value |-> n]
    /\ pc' = "done"
    /\ UNCHANGED <<call, frame, n, effect_size, prev, heap, site, fs>>

\* The caller of test_acceptance_equals_attribute: after acceptance_sample_size
\* has returned, attribute_sample_size_amount is called with the same values.
SameCallToAmount ==
    /\ pc = "done"
    /\ UNCHANGED <<heap, site, fs>>
    /\ call.fn = "acceptance_sample_size"
    /\ prev = NoRet
    /\ prev' = [kind |-> "call", call |-> call, ret |-> ret]
    /\ call' = AmountCall(ArgsOf(call))
    /\ EnterAmount(ArgsOf(call))
    /\ ret' = NoRet

\* A caller that repeats a call of attribute_sample_size_amount or of
\* acceptance_sample_size with another first argument and the other
\* arguments as they were.
SameCallOtherTotal ==
    /\ pc = "done"
    /\ call.fn \in {"attribute_sample_size_amount", "acceptance_sample_size"}
    /\ prev = NoRet
    /\ prev' = [kind |-> "call", call |-> call, ret |-> ret]
    /\ \E total \in TotalAmountVals \ {ArgsOf(call).first} :
          LET a == [ArgsOf(call) EXCEPT !.first = total]
          IN  IF call.fn = "acceptance_sample_size"
              THEN call' = AcceptanceCall(a) /\ EnterAcceptance(a)
              ELSE call' = AmountCall(a) /\ EnterAmount(a)
    /\ ret' = NoRet
    /\ UNCHANGED <<heap, site, fs>>

\* The arguments with which attribute_sample_size_amount has the effect size,
\* significance level, power and alternative of the attribute_sample_size
\* call c: the amounts of AmountArgs, and the call's own size and sigma_rate
\* passed as mean_transaction and sigma.
SameSearchArgs(c, f) ==
    {a \in [first : TotalAmountVals,
            mean_transaction : MeanTransactionVals \cup {f.size},
            delta_rate : Optional(DeltaRateVals),
            sigma : Optional(SigmaVals \cup {f.sigma_rate}),
            sig_level : {c.sig_level},
            power : {c.power},
            alternative : {c.alternative}] :
        amt_effect_size(attribute_sample_size_amount_frame(
            a.first, a.mean_transaction, a.delta_rate, a.sigma,
            a.sig_level, a.power, a.alternative)) = occ_effect_size(f)}

\* A caller that, after attribute_sample_size has returned, calls
\* attribute_sample_size_amount for the same effect size and test.
SameSearchToAmount ==
    /\ pc = "done"
    /\ call.fn = "attribute_sample_size"
    /\ prev = NoRet
    /\ prev' = [kind |-> "call", call |-> call, ret |-> ret,
                effect_size |-> effect_size]
    /\ \E a \in SameSearchArgs(call, frame) :
          /\ call' = AmountCall(a)
          /\ EnterAmount(a)
    /\ ret' = NoRet
    /\ UNCHANGED <<heap, site, fs>>

(***************************************************************************)
(* A caller that repeats a call it made without optional arguments, this   *)
(* time passing the defaults that the signature declares (for sigma_rate,  *)
(* whose declared default is None, the documented 0.3 * size).             *)
(***************************************************************************)
SearchCalculators ==
    {"attribute_sample_size", "attribute_sample_size_amount",
     "acceptance_sample_size"}

DefaultedCalculators ==
    SearchCalculators
        \cup {"utils.monetary_unit_sample_size", "core.discovery_sample_size"}

\* The call c with every optional argument left out.
Omitted(c) ==
    CASE c.fn = "attribute_sample_size" ->
            [c EXCEPT !.delta_rate = None, !.sigma_rate = None,
                      !.sig_level = None, !.power = None, !.alternative = None]
      [] c.fn \in {"attribute_sample_size_amount", "acceptance_sample_size"} ->
            [c EXCEPT !.delta_rate = None, !.sigma = None,
                      !.sig_level = None, !.power = None, !.alternative = None]
      [] c.fn = "utils.monetary_unit_sample_size" ->
            [c EXCEPT !.confidence = None, !.expected_error_rate = None]
      [] c.fn = "core.discovery_sample_size" ->
            [c EXCEPT !.confidence = None, !.intolerable_rate = None]

\* The call c with every optional argument passed at its declared default.
DeclaredDefaults(c) ==
    CASE c.fn = "attribute_sample_size" ->
            [c EXCEPT !.delta_rate = <<50>>,
                      !.sigma_rate = <<(3 * c.size) \div 10>>,
                      !.sig_level = <<50>>, !.power = <<800>>,
                      !.alternative = <<"greater">>]
      [] c.fn \in {"attribute_sample_size_amount", "acceptance_sample_size"} ->
            [c EXCEPT !.delta_rate = <<50>>, !.sigma = <<30>>,
                      !.sig_level = <<50>>, !.power = <<800>>,
                      !.alternative = <<"greater">>]
      [] c.fn = "utils.monetary_unit_sample_size" ->
            [c EXCEPT !.confidence = <<950>>, !.expected_error_rate = <<0>>]
      [] c.fn = "core.discovery_sample_size" ->
            [c EXCEPT !.confidence = <<950>>, !.intolerable_rate = <<50>>]

\* Entry of attribute_sample_size for the call c, up to n = 10.
EnterAttribute(c) ==
    /\ frame' = attribute_sample_size_frame(c.size, c.delta_rate, c.sigma_rate,
                                            c.sig_level, c.power, c.alternative)
    /\ effect_size' = occ_effect_size(frame')
    /\ n' = SearchStart
    /\ pc' = "loop"

\* The closed-form calculators run in one step.
ClosedFormResult(c) ==
    IF c.fn = "utils.monetary_unit_sample_size"
    THEN monetary_unit_sample_size(c.population_value, c.tolerable_error,
                                   c.confidence, c.expected_error_rate)
    ELSE discovery_sample_size(c.confidence, c.intolerable_rate)

CallWithDeclaredDefaults ==
    /\ pc = "done"
    /\ UNCHANGED <<heap, site, fs>>
    /\ prev = NoRet
    /\ call.fn \in DefaultedCalculators
    /\ call = Omitted(call)
    /\ prev' = [kind |-> "call", call |-> call, ret |-> ret]
    /\ call' = DeclaredDefaults(call)
    /\ IF call.fn \in SearchCalculators
       THEN /\ ret' = NoRet
            /\ IF call.fn = "attribute_sample_size"
               THEN EnterAttribute(call')
               ELSE IF call.fn = "attribute_sample_size_amount"
               THEN EnterAmount(ArgsOf(call'))
               ELSE EnterAcceptance(ArgsOf(call'))
       ELSE /\ ret' = ClosedFormResult(call')
            /\ pc' = "done"
            /\ UNCHANGED <<frame, n, effect_size>>

(***************************************************************************)
(* Independent call sites.  Each site calls a calculator that takes lists: *)
(* the lists are objects of the callers, passed by reference, and two      *)
(* sites may pass the same object.  A call reads its arguments one at a    *)
(* time (np.array(...) copies at utils/sampling.py 148, 149 and 194, the   *)
(* selection data[~np.isnan(data)] at core/statistics.py 231, values.sum() *)
(* at 55) and then computes on what it read; the sites interleave between  *)
(* these steps.  The scalar argument is total_sample_size, expected_total, *)
(* threshold (in halves) or digit.  The modules define no module-level     *)
(* variable, so the heap is the only state the sites share.                *)
(***************************************************************************)
Sites == {"A", "B"}
ObjectIds == {"x", "y"}
SharedLists == {<<1, 4>>, <<4, 1>>, <<12, 0>>}
ScalarVals == {1, 2}

ListCalculators ==
    {"stratified_sample_allocation", "foot_and_agree", "detect_outliers",
     "benford_analysis"}

IdleSite == [pc |-> "idle"]

\* The number of list arguments of a calculator.
ListArity(fn) == IF fn = "stratified_sample_allocation" THEN 2 ELSE 1

AsValues(list) == [i \in 1..Len(list) |-> <<list[i]>>]

AsEntries(list) ==
    [i \in 1..Len(list) |->
        [neg |-> FALSE, int |-> list[i], frac |-> <<>>, float |-> FALSE]]

\* The body of a calculator on the lists it has read.
Apply(fn, lists, scalar) ==
    CASE fn = "stratified_sample_allocation" ->
            stratified_sample_allocation(lists[1], lists[2], scalar)
      [] fn = "foot_and_agree" ->
            foot_and_agree(Series(AsValues(lists[1])), None, <<scalar>>)
      [] fn = "detect_outliers" ->
            detect_outliers(ndarray(AsValues(lists[1])), None, <<scalar>>, "nan")
      [] fn = "benford_analysis" ->
            benford_analysis(AsEntries(lists[1]), <<scalar>>)

\* A calculator that builds its result in its first argument.
HeapAfterInPlace(h, c, result) ==
    IF result.kind = "array" THEN [h EXCEPT ![c.refs[1]] = result.value]
    ELSE h

\* What a returning call leaves in the callers' lists: no statement assigns
\* into an argument (allocation[idx] += diff at utils/sampling.py 166 writes
\* the array made at line 159).
HeapAfter(h, c, result) == h

SiteCall(s) ==
    /\ site[s].pc \in {"idle", "done"}
    /\ \E fn \in ListCalculators, scalar \in ScalarVals :
          \E refs \in [1..ListArity(fn) -> ObjectIds] :
              site' = [site EXCEPT ![s] =
                          [pc |-> "read", fn |-> fn, refs |-> refs,
                           scalar |-> scalar, lists |-> <<>>]]
    /\ UNCHANGED <<pc, call, frame, n, effect_size, ret, prev, heap, fs>>

\* The call reads its next list argument.
SiteRead(s) ==
    /\ site[s].pc = "read"
    /\ Len(site[s].lists) < Len(site[s].refs)
    /\ site' = [site EXCEPT ![s].lists =
                   Append(@, heap[site[s].refs[Len(site[s].lists) + 1]])]
    /\ UNCHANGED <<pc, call, frame, n, effect_size, ret, prev, heap, fs>>

\* The call computes on what it read and returns.
SiteReturn(s) ==
    /\ site[s].pc = "read"
    /\ Len(site[s].lists) = Len(site[s].refs)
    /\ LET c == site[s]
           result == Apply(c.fn, c.lists, c.scalar)
       IN  /\ site' = [site EXCEPT ![s] =
                          [pc |-> "done", fn |-> c.fn, refs |-> c.refs,
                           scalar |-> c.scalar, ret |-> result]]
           /\ heap' = HeapAfter(heap, c, result)
    /\ UNCHANGED <<pc, call, frame, n, effect_size, ret, prev, fs>>

InitShared ==
    /\ pc = "idle"
    /\ call = NoCall
    /\ frame = NoCall
    /\ n = 0
    /\ effect_size = 0
    /\ ret = NoRet
    /\ prev = NoRet
    /\ heap \in [ObjectIds -> SharedLists]
    /\ site = [s \in Sites |-> IdleSite]
    /\ fs = NoFiles

(***************************************************************************)
(* data/loaders.py and data/__init__.py: load_csv, load_data, save_data,   *)
(* load_dataset.                                                           *)
(* A path is the sequence of its components from the root; the working     *)
(* directory is /work and the package is installed in /src.  The file      *)
(* system is the set of its directories and a function from the paths of   *)
(* its files to their content.  A table has the one column 'a'; a cell is  *)
(* an integer or a string, a CSV file holds the header and the text of     *)
(* each cell, and read_csv infers the type of the column from the texts.   *)
(***************************************************************************)
Cwd == <<"work">>
PackageRoot == <<"src">>
DatasetDir == <<"src", "auditanalytics", "data">>

IntCell(text) == [t |-> "int", v |-> text]
StrCell(text) == [t |-> "str", v |-> text]

TableVals ==
    {<<>>, <<IntCell("7")>>, <<StrCell("7")>>, <<StrCell("x")>>,
     <<IntCell("7"), IntCell("1")>>, <<StrCell("x"), StrCell("7")>>}

FileNames == {"a.csv", "b.csv"}
DataDirVals == {<<"tmp", "new">>, <<"work", "data">>}
DatasetNames == {"a", "b"}

\* f'{name}.csv'
DatasetFile(name) == IF name = "a" THEN "a.csv" ELSE "b.csv"

\* df.to_csv(filepath, index=False): the header and the text of every cell
to_csv(table) ==
    [header |-> <<"a">>, rows |-> [i \in 1..Len(table) |-> table[i].v]]

IsIntText(text) == text \in {"1", "7"}

\* pd.read_csv: a column whose texts all read as integers is an integer
\* column, any other column holds the texts as strings.
read_csv(content) ==
    LET rows == content.rows
    IN  IF rows # <<>> /\ \A i \in 1..Len(rows) : IsIntText(rows[i])
        THEN [i \in 1..Len(rows) |-> IntCell(rows[i])]
        ELSE [i \in 1..Len(rows) |-> StrCell(rows[i])]

IsFile(f, path) == path \in DOMAIN f.files

\* Path.exists()
Exists(f, path) == path \in f.dirs \/ IsFile(f, path)

\* The path and the directories above it.
Ancestors(path) == {SubSeq(path, 1, k) : k \in 0..Len(path)}

\* data_dir.mkdir(parents=True, exist_ok=True)
mkdir(f, path) == [f EXCEPT !.dirs = @ \cup Ancestors(path)]

\* Writing a file creates it or replaces its content.
WriteFile(f, path, content) ==
    [f EXCEPT !.files = [q \in DOMAIN f.files \cup {path} |->
                            IF q = path THEN content ELSE f.files[q]]]

\* pd.read_csv of a path that exists
ReadPath(f, path) ==
    IF IsFile(f, path)
    THEN [kind |-> "DataFrame", table |-> read_csv(f.files[path])]
    ELSE [kind |-> "IsADirectoryError"]

\* A load_csv that answers an absent file with an empty table.
load_csv_lenient(f, filepath) ==
    IF ~Exists(f, filepath) THEN [kind |-> "DataFrame", table |-> <<>>]
    ELSE ReadPath(f, filepath)

load_csv(f, filepath) ==
    IF ~Exists(f, filepath) THEN [kind |-> "FileNotFoundError"]
    ELSE ReadPath(f, filepath)

\* The locations load_data tries when data_dir is None, in order.
possible_paths(filename) ==
    <<Cwd \o <<"data", filename>>,
      SubSeq(Cwd, 1, Len(Cwd) - 1) \o <<"data", filename>>,
      PackageRoot \o <<"data", filename>>,
      Cwd \o <<"data", filename>>>>

load_data(f, filename, data_dir) ==
    IF data_dir = None
    THEN LET paths == possible_paths(filename)
             found == {i \in 1..Len(paths) : Exists(f, paths[i])}
         IN  IF found = {} THEN [kind |-> "FileNotFoundError"]
             ELSE load_csv(f, paths[CHOOSE i \in found :
                                        \A j \in found : i <= j])
    ELSE load_csv(f, data_dir[1] \o <<filename>>)

\* The file system after save_data (which returns None).
save_data(f, df, filename, data_dir) ==
    LET dir == IF data_dir = None THEN Cwd \o <<"data">> ELSE data_dir[1]
    IN  WriteFile(mkdir(f, dir), dir \o <<filename>>, to_csv(df))

load_dataset(f, name) ==
    LET data_path == DatasetDir \o <<DatasetFile(name)>>
    IN  IF ~Exists(f, data_path) THEN [kind |-> "FileNotFoundError"]
        ELSE ReadPath(f, data_path)

\* The paths handed to load_csv: the places a file can be, and a directory.
CsvPaths ==
    {d \o <<name>> : d \in DataDirVals \cup {PackageRoot \o <<"data">>},
                     name \in FileNames}
        \cup {Cwd}

\* The installed package, with or without a data file at the package root
\* and with the dataset 'a'.
InstalledDirs == Ancestors(DatasetDir) \cup {Cwd}

PackagedContent == to_csv(<<IntCell("1")>>)

InitialFileSystems ==
    {[dirs |-> InstalledDirs,
      files |-> [q \in {DatasetDir \o <<"a.csv">>} |-> PackagedContent]],
     [dirs |-> InstalledDirs \cup {PackageRoot \o <<"data">>},
      files |-> [q \in {DatasetDir \o <<"a.csv">>,
                        PackageRoot \o <<"data", "a.csv">>} |->
                    PackagedContent]]}

LoaderReady == pc \in {"idle", "done"}

LoadCsv ==
    /\ LoaderReady
    /\ \E filepath \in CsvPaths :
          /\ call' = [fn |-> "load_csv", filepath |-> filepath]
          /\ ret' = load_csv(fs, filepath)
    /\ pc' = "done"
    /\ UNCHANGED <<frame, n, effect_size, prev, heap, site, fs>>

LoadData ==
    /\ LoaderReady
    /\ \E filename \in FileNames, data_dir \in Optional(DataDirVals) :
          /\ call' = [fn |-> "load_data", filename |-> filename,
                      data_dir |-> data_dir]
          /\ ret' = load_data(fs, filename, data_dir)
    /\ pc' = "done"
    /\ UNCHANGED <<frame, n, effect_size, prev, heap, site, fs>>

SaveData ==
    /\ LoaderReady
    /\ \E df \in TableVals, filename \in FileNames,
          data_dir \in Optional(DataDirVals) :
          /\ call' = [fn |-> "save_data", df |-> df, filename |-> filename,
                      data_dir |-> data_dir]
          /\ fs' = save_data(fs, df, filename, data_dir)
    /\ ret' = [kind |-> "None"]
    /\ pc' = "done"
    /\ UNCHANGED <<frame, n, effect_size, prev, heap, site>>

LoadDataset ==
    /\ LoaderReady
    /\ \E name \in DatasetNames :
          /\ call' = [fn |-> "load_dataset", name |-> name]
          /\ ret' = load_dataset(fs, name)
    /\ pc' = "done"
    /\ UNCHANGED <<frame, n, effect_size, prev, heap, site, fs>>

InitLoaders ==
    /\ pc = "idle"
    /\ call = NoCall
    /\ frame = NoCall
    /\ n = 0
    /\ effect_size = 0
    /\ ret = NoRet
    /\ prev = NoRet
    /\ heap = <<>>
    /\ site = <<>>
    /\ fs \in InitialFileSystems

(***************************************************************************)
(* Specifications.                                                         *)
(***************************************************************************)
Init ==
    /\ pc = "idle"
    /\ call = NoCall
    /\ frame = NoCall
    /\ n = 0
    /\ effect_size = 0
    /\ ret = NoRet
    /\ prev = NoRet
    /\ heap = <<>>
    /\ site = <<>>
    /\ fs = NoFiles

NextAlloc == StratifiedSampleAllocation

SpecAlloc == Init /\ [][NextAlloc]_vars

NextDiscovery ==
    \/ DiscoverySampleSize
    \/ UtilsDiscoverySampleSize
    \/ MonetaryUnitSampleSize
    \/ UtilsAttributeSampleSize

SpecDiscovery == Init /\ [][NextDiscovery]_vars

NextSearch ==
    \/ AttributeSampleSize
    \/ AttributeLoop
    \/ AttributeReturn
    \/ AttributeSampleSizeAmount
    \/ AcceptanceSampleSize
    \/ AmountLoop
    \/ AmountReturn

SpecSearch == Init /\ [][NextSearch]_vars

NextPair ==
    \/ AcceptanceSampleSize
    \/ AmountLoop
    \/ AmountReturn
    \/ SameCallToAmount

SpecPair == Init /\ [][NextPair]_vars

NextTotals ==
    \/ AttributeSampleSizeAmount
    \/ AcceptanceSampleSize
    \/ AmountLoop
    \/ AmountReturn
    \/ SameCallOtherTotal

SpecTotals == Init /\ [][NextTotals]_vars

NextCopies ==
    \/ AttributeSampleSize
    \/ AttributeLoop
    \/ AttributeReturn
    \/ AmountLoop
    \/ AmountReturn
    \/ SameSearchToAmount

SpecCopies == Init /\ [][NextCopies]_vars

NextOutliers == DetectOutliers

SpecOutliers == Init /\ [][NextOutliers]_vars

NextBenford == BenfordAnalysis

SpecBenford == Init /\ [][NextBenford]_vars

NextDefaults ==
    \/ AttributeSampleSize
    \/ AttributeLoop
    \/ AttributeReturn
    \/ AttributeSampleSizeAmount
    \/ AcceptanceSampleSize
    \/ AmountLoop
    \/ AmountReturn
    \/ MonetaryUnitSampleSize
    \/ DiscoverySampleSize
    \/ CallWithDeclaredDefaults

SpecDefaults == Init /\ [][NextDefaults]_vars

NextShared ==
    \/ \E s \in Sites : SiteCall(s)
    \/ \E s \in Sites : SiteRead(s)
    \/ \E s \in Sites : SiteReturn(s)

SpecShared == InitShared /\ [][NextShared]_vars

NextLoaders ==
    \/ LoadCsv
    \/ LoadData
    \/ SaveData
    \/ LoadDataset

SpecLoaders == InitLoaders /\ [][NextLoaders]_vars

NextFoot == FootAndAgree

SpecFoot == Init /\ [][NextFoot]_vars

(***************************************************************************)
(* Properties of stratified_sample_allocation.                             *)
(***************************************************************************)
AllocDone == pc = "done" /\ call.fn = "stratified_sample_allocation"

\* Equal length >= 1 and a positive sum of the Neyman weights.
AllocValidInput ==
    /\ Len(call.strata_sizes) = Len(call.strata_variances)
    /\ Len(call.strata_sizes) >= 1
    /\ SumSeq(NeymanWeights(call.strata_sizes, call.strata_variances)) > 0

AllocResidual ==
    call.total_sample_size
      - SumSeq(RoundedShares(NeymanWeights(call.strata_sizes,
                                           call.strata_variances),
                             call.total_sample_size))

\* C1: for every valid input the returned allocation has one entry per
\* stratum and its entries sum to total_sample_size exactly.
C1_AllocationSumsToTotal ==
    (AllocDone /\ AllocValidInput) =>
        /\ ret.kind = "array"
        /\ Len(ret.value) = Len(call.strata_sizes)
        /\ SumSeq(ret.value) = call.total_sample_size

\* A valid call whose rounded shares overshoot the total, so that the
\* reconciliation had to take the residual away again.
C1_Witness ==
    /\ AllocDone /\ AllocValidInput
    /\ AllocResidual < 0
    /\ ret.kind = "array"

\* C2: for every valid input with total_sample_size >= 0 every entry of the
\* returned allocation is a non-negative integer.
C2_AllocationNonNegative ==
    (AllocDone /\ AllocValidInput /\ call.total_sample_size >= 0) =>
        /\ ret.kind = "array"
        /\ \A i \in 1..Len(ret.value) : ret.value[i] >= 0

\* C6: strata_sizes and strata_variances of different lengths always raise
\* ValueError and no allocation is returned.
C6_MismatchedLengthsRaise ==
    (AllocDone /\ Len(call.strata_sizes) # Len(call.strata_variances)) =>
        ret.kind = "ValueError"

(***************************************************************************)
(* Properties of the discovery and monetary-unit calculators.              *)
(***************************************************************************)
InOpenUnit(x) == 0 < x /\ x < 1000

CoreDiscoveryDone == pc = "done" /\ call.fn = "core.discovery_sample_size"

ValidProbs == {x \in ProbVals : InOpenUnit(x)}

CoreDiscoveryReturned == CoreDiscoveryDone /\ ret.kind = "int"

\* C17: for valid inputs, core discovery_sample_size does not decrease when
\* confidence grows with the rate fixed, nor when the intolerable rate
\* shrinks with confidence fixed; discovery_sample_size(0.95, 0.05) = 59.
C17_DiscoveryMonotone ==
    CoreDiscoveryReturned =>
        LET c == Default(call.confidence, 950)
            r == Default(call.intolerable_rate, 50)
        IN  /\ \A x \in ValidProbs :
                 x >= c => discovery_sample_size(<<x>>, <<r>>).value >= ret.value
            /\ \A x \in ValidProbs :
                 x <= r => discovery_sample_size(<<c>>, <<x>>).value >= ret.value
            /\ (c = 950 /\ r = 50) => ret.value = 59

\* The reference call, whose neighbours on the grid give strictly less
\* (confidence 0.90) and strictly more (rate 0.01).
C17_Witness ==
    /\ CoreDiscoveryReturned
    /\ call.confidence = <<950>>
    /\ call.intolerable_rate = <<50>>
    /\ ret.value = 59
    /\ discovery_sample_size(<<900>>, <<50>>).value < 59
    /\ discovery_sample_size(<<950>>, <<10>>).value > 59

UtilsDone ==
    /\ pc = "done"
    /\ call.fn \in {"utils.discovery_sample_size",
                    "utils.monetary_unit_sample_size"}

\* C5: the package-level discovery_sample_size and monetary_unit_sample_size
\* raise ValueError whenever confidence, or the intolerable error rate of the
\* discovery calculator, lies outside (0,1); they return no sample size and
\* raise no other error there.  (expected_error_rate, whose default is 0, is
\* not counted as a rate that must lie in (0,1).)
C5_UtilsRejectOutOfDomain ==
    UtilsDone =>
        LET c == IF call.fn = "utils.discovery_sample_size"
                 THEN call.confidence
                 ELSE Default(call.confidence, 950)
            bad == \/ ~InOpenUnit(c)
                   \/ /\ call.fn = "utils.discovery_sample_size"
                      /\ ~InOpenUnit(call.intolerable_error_rate)
        IN  bad => ret.kind = "ValueError"

ClosedFormReturned ==
    /\ pc = "done"
    /\ call.fn \in {"core.discovery_sample_size", "utils.discovery_sample_size",
                    "utils.monetary_unit_sample_size",
                    "utils.attribute_sample_size"}
    /\ ret.kind = "int"

\* The data-model invariants on the arguments of a closed-form calculator:
\* size > 0, a positive tolerable error, and significance level, power,
\* confidence and rate in (0,1).
MeetsDataModel ==
    CASE call.fn = "core.discovery_sample_size" ->
            /\ InOpenUnit(Default(call.confidence, 950))
            /\ InOpenUnit(Default(call.intolerable_rate, 50))
      [] call.fn = "utils.discovery_sample_size" ->
            /\ InOpenUnit(call.confidence)
            /\ InOpenUnit(call.intolerable_error_rate)
      [] call.fn = "utils.monetary_unit_sample_size" ->
            /\ call.population_value > 0
            /\ call.tolerable_error > 0
            /\ InOpenUnit(Default(call.confidence, 950))
      [] call.fn = "utils.attribute_sample_size" ->
            /\ call.size > 0
            /\ InOpenUnit(Default(call.sig_level, 50))
            /\ InOpenUnit(Default(call.power, 800))

\* C18: a sample-size calculator that returns for arguments meeting the
\* data-model invariants returns an integer >= 1.
C18_SampleSizeAtLeastOne ==
    (ClosedFormReturned /\ MeetsDataModel) => ret.value >= 1

(***************************************************************************)
(* Properties of foot_and_agree.                                           *)
(***************************************************************************)
FootAgreed ==
    /\ pc = "done"
    /\ call.fn = "foot_and_agree"
    /\ call.expected_total # None
    /\ ret.kind = "dict"

\* C10: with an expected total supplied, agrees is true exactly when the
\* computed total is strictly less than 1e-10 away from the expected total,
\* and difference is the computed total minus the expected total, signed.
C10_AgreesIffWithinTolerance ==
    FootAgreed =>
        LET d == ret.total - call.expected_total[1]
        IN  /\ ret.agrees = (0 - Tolerance < d /\ d < Tolerance)
            /\ ret.difference = d

\* The computed total is exactly 1e-10 below the expected one: no agreement,
\* and a negative difference.
C10_Witness ==
    /\ FootAgreed
    /\ ret.total = call.expected_total[1] - Tolerance
    /\ ret.agrees = FALSE
    /\ ret.difference < 0

FootDone == pc = "done" /\ call.fn = "foot_and_agree"

\* C11: whenever foot_and_agree returns, the result has 'total'; 'agrees' and
\* 'difference' are both present when an expected total was supplied (0
\* included) and both absent when it was left out.
C11_FieldsIffExpectedSupplied ==
    (FootDone /\ ret.kind = "dict") =>
        /\ "total" \in DOMAIN ret
        /\ IF call.expected_total # None
           THEN {"agrees", "difference"} \subseteq DOMAIN ret
           ELSE {"agrees", "difference"} \cap DOMAIN ret = {}

\* An expected total of 0 was supplied and the result carries both fields.
C11_Witness ==
    /\ FootDone
    /\ call.expected_total = <<0>>
    /\ ret.kind = "dict"
    /\ {"total", "agrees", "difference"} \subseteq DOMAIN ret

\* C12: a DataFrame without a column name raises ValueError, with or without
\* an expected total, and yields no total; a Series always returns a result,
\* with or without a column name.
C12_TabularNeedsColumn ==
    FootDone =>
        /\ (call.data.type = "DataFrame" /\ call.column = None) =>
               (ret.kind = "ValueError" /\ "total" \notin DOMAIN ret)
        /\ call.data.type = "Series" => ret.kind = "dict"

\* A non-empty table, no column name, no expected total: ValueError.
C12_Witness ==
    /\ FootDone
    /\ call.data.type = "DataFrame"
    /\ call.data.amount # <<>>
    /\ call.column = None
    /\ call.expected_total = None
    /\ ret.kind = "ValueError"

(***************************************************************************)
(* Properties of detect_outliers.                                          *)
(***************************************************************************)
OutliersReported ==
    /\ pc = "done"
    /\ call.fn = "detect_outliers"
    /\ ret.kind = "dict"

\* C13: for every method and for Series and plain arrays alike, every
\* returned outlier index is the position of the flagged value in the
\* sequence the caller passed: original[index[i]] = outlier_values[i].
C13_IndicesReferToOriginal ==
    OutliersReported =>
        /\ Len(ret.outlier_indices) = Len(ret.outlier_values)
        /\ \A i \in 1..Len(ret.outlier_indices) :
              LET idx == ret.outlier_indices[i]
              IN  /\ idx + 1 \in 1..Len(call.data.values)
                  /\ call.data.values[idx + 1] = <<ret.outlier_values[i]>>

IqrReported ==
    /\ OutliersReported
    /\ Default(call.method, "iqr") = "iqr"
    /\ dropna_values(call.data.values) # <<>>

\* 8 * (Q1 - k * IQR) and 8 * (Q3 + k * IQR) of the call, k = threshold
IqrLower8 ==
    LET values == dropna_values(call.data.values)
        q1 == np_percentile4(values, 25)
        q3 == np_percentile4(values, 75)
    IN  2 * q1 - Default(call.threshold, 3) * (q3 - q1)

IqrUpper8 ==
    LET values == dropna_values(call.data.values)
        q1 == np_percentile4(values, 25)
        q3 == np_percentile4(values, 75)
    IN  2 * q3 + Default(call.threshold, 3) * (q3 - q1)

\* C14: method 'iqr' with threshold k flags a non-missing value x exactly
\* when x < Q1 - k * IQR or x > Q3 + k * IQR (a value on a bound is not
\* flagged), Q1 and Q3 being the 25th and 75th percentiles of the non-missing
\* values; the reported values and count are those of the flagged values; in
\* [1..9, 100] with k = 1.5 the value 100 is flagged and n_outliers >= 1.
C14_IqrFlagsOutsideBounds ==
    IqrReported =>
        LET values == dropna_values(call.data.values)
            flagged == {i \in 1..Len(values) :
                           \/ 8 * values[i] < IqrLower8
                           \/ 8 * values[i] > IqrUpper8}
        IN  /\ Len(ret.outlier_mask) = Len(values)
            /\ \A i \in 1..Len(values) : ret.outlier_mask[i] = (i \in flagged)
            /\ ret.n_outliers = Cardinality(flagged)
            /\ Len(ret.outlier_values) = Cardinality(flagged)
            /\ {ret.outlier_values[i] : i \in 1..Len(ret.outlier_values)}
                   = {values[i] : i \in flagged}
            /\ (call.data.values = ReferenceData /\ call.threshold \in {None, <<3>>})
                   => /\ ret.n_outliers >= 1
                      /\ ret.outlier_values = <<100>>

\* A value lies exactly on the upper bound of a spread sample and is not
\* flagged.
C14_Witness ==
    /\ IqrReported
    /\ IqrUpper8 > IqrLower8
    /\ \E i \in 1..Len(ret.outlier_mask) :
          /\ 8 * dropna_values(call.data.values)[i] = IqrUpper8
          /\ ~ret.outlier_mask[i]

(***************************************************************************)
(* Properties of benford_analysis.                                         *)
(***************************************************************************)
BenfordReported ==
    /\ pc = "done"
    /\ call.fn = "benford_analysis"
    /\ ret.kind = "DataFrame"

\* The positive input values whose digit string (decimal point and sign
\* removed) has at least digit characters.
QualifyingCount ==
    LET strings == benford_strings(call.data)
    IN  Cardinality({i \in 1..Len(strings) :
                        Len(strings[i]) >= Default(call.digit, 1)})

\* C15: the observed counts of the report's rows sum to the number of
\* qualifying values; in leading-digit mode that is every positive value,
\* values between 0 and 1 included.
C15_CountsSumToQualifying ==
    BenfordReported =>
        SumSeq([i \in 1..Len(ret.rows) |-> ret.rows[i].Observed_Count])
            = QualifyingCount

\* C16: the report has one row per digit of the domain in ascending order,
\* 1..9 for digit position 1 and 0..9 for any other position, whether or not
\* a digit was observed; the chi-square degrees of freedom are the number of
\* rows minus 1 (8 and 9).
C16_OneRowPerDigit ==
    BenfordReported =>
        LET first == IF Default(call.digit, 1) = 1 THEN 1 ELSE 0
            rows == ret.rows
        IN  /\ Len(rows) = 10 - first
            /\ \A i \in 1..Len(rows) : rows[i].Digit = first + i - 1
            /\ ret.chi2_df = Len(rows) - 1
            /\ ret.chi2_df = IF first = 1 THEN 8 ELSE 9

\* A second-digit report with its ten rows, of which the row of digit 0 is
\* empty and the row of digit 2 is not.
C16_Witness ==
    /\ BenfordReported
    /\ call.digit = <<2>>
    /\ Len(ret.rows) = 10
    /\ ret.rows[1].Observed_Count = 0
    /\ ret.rows[3].Observed_Count > 0
    /\ ret.chi2_df = 9

(***************************************************************************)
(* Properties of the power search and of the calculators that run it.      *)
(***************************************************************************)
SearchDone ==
    /\ pc = "done"
    /\ frame.fn \in {"attribute_sample_size", "attribute_sample_size_amount"}

\* The sample size handed to the caller.
Returned == IF ret.kind = "dict" THEN ret.occurrence ELSE ret.value

\* The achieved power of the running search at candidate m.
PowerAt(m) ==
    IF frame.fn = "attribute_sample_size"
    THEN occ_power_at(frame, effect_size, m)
    ELSE amt_power_at(frame, effect_size, m)

PairDone ==
    /\ pc = "done"
    /\ prev.kind = "call"
    /\ call.fn = "attribute_sample_size_amount"
    /\ prev.call.fn = "acceptance_sample_size"

\* C3: acceptance_sample_size returns exactly what attribute_sample_size_amount
\* returns for the same values, omitted arguments and capped searches included.
C3_AcceptanceEqualsAmount ==
    (PairDone /\ ArgsOf(call) = ArgsOf(prev.call)) => ret = prev.ret

\* Both calls left every optional argument out and both ended at the cap.
C3_Witness ==
    /\ PairDone
    /\ call.sigma = None
    /\ call.delta_rate = None
    /\ prev.ret = [kind |-> "int", value |-> SearchCap]
    /\ ret.kind = "int"

C8_ExhaustionSignalled ==
    (SearchDone /\ Returned = SearchCap) =>
        (DOMAIN ret) \ {"kind", "value", "occurrence"} # {}

\* C9: the search terminates: it starts at n = 10; every pass of the loop
\* either moves on from a candidate that missed the target to the candidate
\* n + 1 <= 10000 (so there are at most 9990 passes, in increasing order), or
\* returns n, which is in 10..10000 and is 10000 only after every candidate
\* in 10..9999 has missed the target.
C9_SearchTerminates ==
    [][/\ (pc = "idle" /\ pc' = "loop") => n' = SearchStart
       /\ pc = "loop" =>
            \/ /\ pc' = "loop"
               /\ n' = n + 1
               /\ n' <= SearchCap
               /\ PowerAt(n) < frame.power
            \/ /\ pc' = "done"
               /\ n \in SearchStart..SearchCap
               /\ Returned' = n
               /\ n < SearchCap => PowerAt(n) >= frame.power
      ]_vars

\* A search that tried every candidate and returned the cap.
C9_Witness ==
    /\ SearchDone
    /\ n = SearchCap
    /\ Returned = SearchCap

(***************************************************************************)
(* Properties of the declared defaults.                                    *)
(***************************************************************************)
DefaultsPairDone ==
    /\ pc = "done"
    /\ prev.kind = "call"
    /\ prev.call = Omitted(prev.call)
    /\ call = DeclaredDefaults(prev.call)

\* C19: a calculator called with its declared defaults passed explicitly
\* returns what it returned with the optional arguments left out:
\* attribute_sample_size with (0.05, 0.3 * size, 0.05, 0.8, 'greater'),
\* attribute_sample_size_amount and acceptance_sample_size with (0.05, 30,
\* 0.05, 0.8, 'greater'), monetary_unit_sample_size with (0.95, 0) and
\* discovery_sample_size with (0.95, 0.05).
C19_DeclaredDefaultsRoundTrip ==
    DefaultsPairDone => ret = prev.ret

\* attribute_sample_size(size) and its explicit twin both searched past the
\* first candidate and returned.
C19_Witness ==
    /\ DefaultsPairDone
    /\ call.fn = "attribute_sample_size"
    /\ call.sigma_rate = <<300>>
    /\ prev.ret.kind = "dict"
    /\ prev.ret.occurrence > SearchStart
    /\ ret.kind = "dict"

(***************************************************************************)
(* Properties of concurrent call sites.                                    *)
(***************************************************************************)
\* The result of the call c executed alone on the heap h.
Alone(c, h) == Apply(c.fn, [i \in 1..Len(c.refs) |-> h[c.refs[i]]], c.scalar)

TargetAbsent(c, f) ==
    CASE c.fn = "load_csv" -> ~Exists(f, c.filepath)
      [] c.fn = "load_data" ->
            IF c.data_dir = None
            THEN \A i \in 1..4 : ~Exists(f, possible_paths(c.filename)[i])
            ELSE ~Exists(f, c.data_dir[1] \o <<c.filename>>)
      [] c.fn = "load_dataset" ->
            ~Exists(f, DatasetDir \o <<DatasetFile(c.name)>>)
      [] OTHER -> FALSE

\* C21: a loading call whose target is absent raises FileNotFoundError and
\* returns no data, and no loading call creates a file or a directory.
C21_AbsentIsNotFound ==
    [][call'.fn \in {"load_csv", "load_data", "load_dataset"} =>
          /\ fs' = fs
          /\ TargetAbsent(call', fs) =>
                (ret'.kind = "FileNotFoundError" /\ "table" \notin DOMAIN ret')
      ]_vars

\* load_data with a directory that exists (it was saved to) but lacks the
\* file that is asked for.
C21_Witness ==
    /\ pc = "done"
    /\ call.fn = "load_data"
    /\ call.data_dir = <<<<"tmp", "new">>>>
    /\ call.filename = "b.csv"
    /\ <<"tmp", "new">> \in fs.dirs
    /\ IsFile(fs, <<"tmp", "new", "a.csv">>)
    /\ ret.kind = "FileNotFoundError"

\* The directory save_data writes to.
SaveDir(c) == IF c.data_dir = None THEN Cwd \o <<"data">> ELSE c.data_dir[1]

\* C22: after save_data(df, name, data_dir) the file data_dir/name exists,
\* whether or not the directory existed before, and a load_data(name,
\* data_dir) that follows returns a table equal to df, the table of the most
\* recent save to that name.
C22_SaveLoadRoundTrip ==
    [][/\ call'.fn = "save_data" =>
             IsFile(fs', SaveDir(call') \o <<call'.filename>>)
       /\ (/\ pc = "done"
           /\ call.fn = "save_data"
           /\ call'.fn = "load_data"
           /\ call'.filename = call.filename
           /\ call'.data_dir = call.data_dir) =>
             (ret'.kind = "DataFrame" /\ ret'.table = call.df)
      ]_vars

(***************************************************************************)
(* Properties of the reconciliation, the scan and the monetary-unit        *)
(* formula.                                                                *)
(***************************************************************************)
AllocRounded ==
    RoundedShares(NeymanWeights(call.strata_sizes, call.strata_variances),
                  call.total_sample_size)

\* The first stratum, in input order, that holds the largest rounded count.
FirstLargest(rounded) ==
    CHOOSE i \in 1..Len(rounded) :
        /\ \A j \in 1..Len(rounded) : rounded[j] <= rounded[i]
        /\ \A j \in 1..Len(rounded) : rounded[j] = rounded[i] => i <= j

MusReturned ==
    /\ pc = "done"
    /\ call.fn = "utils.monetary_unit_sample_size"
    /\ ret.kind = "int"

\* ceil(p / q) for q > 0
CeilDiv(p, q) == 0 - ((0 - p) \div q)

TotalsPairDone ==
    /\ pc = "done"
    /\ prev.kind = "call"
    /\ call.fn \in {"attribute_sample_size_amount", "acceptance_sample_size"}
    /\ prev.call.fn = call.fn

\* C26: two calls of attribute_sample_size_amount, or of
\* acceptance_sample_size, that differ in the first argument only return the
\* same sample size.
C26_FirstArgumentIgnored ==
    (/\ TotalsPairDone
     /\ ArgsOf(call).first # ArgsOf(prev.call).first
     /\ [ArgsOf(call) EXCEPT !.first = 0] = [ArgsOf(prev.call) EXCEPT !.first = 0])
        => ret = prev.ret

\* Two converged calls with different totals.
C26_Witness ==
    /\ TotalsPairDone
    /\ ArgsOf(call).first # ArgsOf(prev.call).first
    /\ ret.kind = "int"
    /\ ret.value > 10
    /\ ret.value < 10000
    /\ prev.ret = ret

InSearch ==
    /\ pc \in {"loop", "done"}
    /\ frame.fn \in {"attribute_sample_size", "attribute_sample_size_amount"}

\* The two-sided critical value and power, written out from the last branch
\* of the two conditionals.
TwoSidedCritical(m) == t_ppf(1000 - frame.sig_level \div 2, m - 1)

TwoSidedPower(m) ==
    LET ncp == NonCentrality(effect_size, m)
    IN  1000 - nct_cdf(TwoSidedCritical(m), m - 1, ncp)
             + nct_cdf(0 - TwoSidedCritical(m), m - 1, ncp)

\* C27: with an alternative other than 'greater' and 'less', the critical
\* value and the power of every candidate are those of the two-sided test,
\* the search moves on from a candidate exactly when its two-sided power
\* misses the target, and the call returns a sample size, not an error.
C27_UnknownAlternativeIsTwoSided ==
    (InSearch /\ frame.alternative \notin {"greater", "less"}) =>
        /\ (IF frame.fn = "attribute_sample_size"
            THEN occ_t_alpha(frame.alternative, frame.sig_level, n - 1)
            ELSE amt_t_alpha(frame.alternative, frame.sig_level, n - 1))
              = TwoSidedCritical(n)
        /\ PowerAt(n) = TwoSidedPower(n)
        /\ n > 10 => TwoSidedPower(n - 1) < frame.power
        /\ pc = "done" =>
              /\ ret.kind \in {"dict", "int"}
              /\ Returned = n
              /\ n < 10000 => TwoSidedPower(n) >= frame.power

\* A call with the alternative 'both' converged after some passes.
C27_Witness ==
    /\ SearchDone
    /\ call.alternative = <<"both">>
    /\ Returned > 10
    /\ Returned < 10000
    /\ TwoSidedPower(Returned) >= frame.power

CopiesPairDone ==
    /\ pc = "done"
    /\ prev.kind = "call"
    /\ prev.call.fn = "attribute_sample_size"
    /\ call.fn = "attribute_sample_size_amount"

\* C28: for the same effect size, significance level, power and alternative,
\* attribute_sample_size(...)['occurrence'] equals
\* attribute_sample_size_amount(...), capped searches included.
C28_CopiesAgree ==
    (/\ CopiesPairDone
     /\ prev.effect_size = effect_size
     /\ prev.call.sig_level = call.sig_level
     /\ prev.call.power = call.power
     /\ prev.call.alternative = call.alternative)
        => /\ prev.ret.kind = "dict"
           /\ ret.kind = "int"
           /\ prev.ret.occurrence = ret.value

\* Both copies were given different amounts with the same effect size and
\* converged after some passes.
C28_Witness ==
    /\ CopiesPairDone
    /\ prev.effect_size = effect_size
    /\ prev.call.size # call.mean_transaction
    /\ prev.ret.occurrence = ret.value
    /\ ret.value > 10
    /\ ret.value < 10000

=============================================================================
